---- MODULE Spec2Model ----
(***************************************************************************)
(* PythonHighlighter (codeEditor/highlighter/pyHighlight.py): the block    *)
(* highlighter of a QSyntaxHighlighter subclass.  The document is a list   *)
(* of text blocks; every block keeps the integer user state that the last  *)
(* highlightBlock call on it stored with setCurrentBlockState (-1 when it  *)
(* was never set).  highlightBlock reads the text of the block, the state  *)
(* of the block before it (previousBlockState) and the block's own stored  *)
(* state (currentBlockState), calls setFormat for every span and stores    *)
(* the exit state.                                                         *)
(*                                                                         *)
(* Offsets are 0-based as in the source; TLA+ sequences are 1-based, so    *)
(* the character at offset i of text is text[i + 1].                       *)
(*                                                                         *)
(* Four specifications share the state: Spec (a document of quotes that is *)
(* edited and highlighted), SpecNumbers (a document of numeric literals),  *)
(* SpecBuild (buildRules calls on the rule lists) and SpecThreads (two     *)
(* highlightBlock calls run statement by statement on the shared QRegExp   *)
(* objects).                                                               *)
(***************************************************************************)
EXTENDS Integers, Sequences, FiniteSets

\* Number of text blocks of the document.
NumBlocks == 2
\* Largest number of keystrokes the document holds over all its blocks.
MaxDocKeys == 3
\* Largest number of rules in the rule_list of one buildRules call.
MaxRuleList == 2
\* Largest number of rules the two lists hold together after an appending call.
MaxRules == 4
\* Largest number of setFormat calls one statement-by-statement call makes.
MaxThreadSpans == 3

VARIABLES
    text,           \* text[b]: the characters of block b
    userState,      \* userState[b]: the state stored on block b (-1: never set)
    call,           \* the most recent highlightBlock call: its inputs and what it did
    selfRules,      \* self.rules of a highlighter whose rule set is rebuilt
    selfBlockRules, \* self.blockRules of that highlighter
    buildCall,      \* the most recent buildRules call: its arguments and the lists it found
    thread,         \* thread[t]: the frame of highlightBlock call t, run statement by statement
    regexp          \* regexp[p]: the match state the QRegExp object p holds

docVars == <<text, userState, call>>
buildVars == <<selfRules, selfBlockRules, buildCall>>
threadVars == <<thread, regexp>>
vars == <<text, userState, call, selfRules, selfBlockRules, buildCall, thread, regexp>>

Blocks == 1..NumBlocks

(***************************************************************************)
(* Characters and the texts a keystroke inserts.                           *)
(***************************************************************************)
DQ == "\""
SQ == "'"
Chars == {DQ, SQ, "x"}

\* The characters of the numeric literals and the classes the numeric
\* patterns put them in: [0-9], [0-9A-Fa-f], \w, [+-], [xX], [eE].
Digits == {"0", "1", "2", "3", "4"}
HexDigits == Digits \cup {"F", "e"}
WordChars == Digits \cup {"x", "F", "e"}
Signs == {"-"}
HexMarks == {"x"}
ExponentMarks == {"e"}
NumberChars == WordChars \cup Signs \cup {"."}

Literals ==
    { <<"0", "x", "1", "F">>, <<"3", ".", "1", "4", "e", "-", "2">>, <<"4", "2">> }

TripleDouble == <<DQ, DQ, DQ>>
TripleSingle == <<SQ, SQ, SQ>>
Keystrokes == {TripleDouble, TripleSingle, <<"x">>}

(***************************************************************************)
(* The rule set that __init__ hands to buildRules, restricted to the rules *)
(* whose pattern can match a text over Chars and NumberChars: the three    *)
(* numeric rules, the two single-line string rules (every other LineRule   *)
(* needs a letter of a keyword, an operator, a brace, '_' or '#') and the  *)
(* two MultiLineRules.                                                     *)
(***************************************************************************)
rules ==
    << [number |-> "int", captureBlock |-> 0, style |-> "numbers"],
       [number |-> "hex", captureBlock |-> 0, style |-> "numbers"],
       [number |-> "float", captureBlock |-> 0, style |-> "numbers"],
       [quote |-> DQ, captureBlock |-> 0, style |-> "string"],
       [quote |-> SQ, captureBlock |-> 0, style |-> "string"] >>

blockRules ==
    << [start |-> TripleDouble, end |-> TripleDouble, state |-> 1, style |-> "stringBlock"],
       [start |-> TripleSingle, end |-> TripleSingle, state |-> 2, style |-> "stringBlock"] >>

Min(S) == CHOOSE m \in S : \A n \in S : m <= n
Max(S) == CHOOSE m \in S : \A n \in S : m >= n

(***************************************************************************)
(* QRegExp.indexIn(text, offset) for a literal pattern: the offset of the  *)
(* first match at or after offset, -1 when there is none.  A negative      *)
(* offset counts from the end of the text.                                 *)
(***************************************************************************)
IndexIn(pat, str, offset) ==
    LET from == IF offset < 0 THEN offset + Len(str) ELSE offset
        hits == { i \in 0..(Len(str) - Len(pat)) :
                    /\ i >= from
                    /\ from >= 0
                    /\ \A k \in 1..Len(pat) : str[i + k] = pat[k] }
    IN  IF hits = {} THEN -1 ELSE Min(hits)

\* QRegExp.matchedLength() after indexIn returned index: -1 after a failed match.
MatchedLength(pat, index) == IF index >= 0 THEN Len(pat) ELSE -1

(***************************************************************************)
(* One turn of the while loop of highlightMultilineBlock, for the region   *)
(* that starts at start_index, once the end pattern was searched from      *)
(* start_index + add and end_index is what the search returned.            *)
(***************************************************************************)
\* The ending delimiter is on this line.
EndsOnLine(add, end_index) == end_index >= add

\* The length passed to setFormat.
RegionLength(str, rule, start_index, add, end_index) ==
    IF EndsOnLine(add, end_index)
    THEN end_index - start_index + add + MatchedLength(rule.end, end_index)
    ELSE Len(str) - start_index + add

\* The state passed to setCurrentBlockState.
RegionState(rule, add, end_index) ==
    IF EndsOnLine(add, end_index) THEN 0 ELSE rule.state

(***************************************************************************)
(* The while loop of highlightMultilineBlock.  cur is the block's current  *)
(* state, spans the setFormat calls made so far.  MultilineFormat applies  *)
(* the format and looks for the next match of the start pattern.           *)
(***************************************************************************)
RECURSIVE MultilineLoop(_, _, _, _, _, _)
MultilineFormat(str, rule, start_index, add, state, length, spans) ==
    MultilineLoop(str, rule,
                  IndexIn(rule.start, str, start_index + length),
                  add, state,
                  Append(spans, <<start_index, length, rule.style>>))

MultilineEnd(str, rule, start_index, add, spans, end_index) ==
    MultilineFormat(str, rule, start_index, add,
                    RegionState(rule, add, end_index),
                    RegionLength(str, rule, start_index, add, end_index),
                    spans)

MultilineLoop(str, rule, start_index, add, cur, spans) ==
    IF start_index < 0
    THEN [cur |-> cur, spans |-> spans]
    ELSE MultilineEnd(str, rule, start_index, add, spans,
                      IndexIn(rule.end, str, start_index + add))

(***************************************************************************)
(* highlightMultilineBlock(text, start, end, in_state, style): prev is     *)
(* previousBlockState(), cur the block's current state on entry.  The      *)
(* result holds the block's current state on return, the setFormat calls   *)
(* made and, as inside, the value returned.                                *)
(***************************************************************************)
\* The return statement: r is what the loop left.
StillInside(rule, r) ==
    [cur |-> r.cur, spans |-> r.spans, inside |-> r.cur = rule.state]

\* The else branch: found is what start.indexIn(text) returned.
LookForDelimiter(str, rule, cur, found) ==
    StillInside(rule, MultilineLoop(str, rule, found,
                                    MatchedLength(rule.start, found), cur, <<>>))

highlightMultilineBlockResumesOnCurrent(str, rule, prev, cur) ==
    IF cur = rule.state
    THEN StillInside(rule, MultilineLoop(str, rule, 0, 0, cur, <<>>))
    ELSE LookForDelimiter(str, rule, cur, IndexIn(rule.start, str, 0))

highlightMultilineBlock(str, rule, prev, cur) ==
    IF prev = rule.state
    THEN StillInside(rule, MultilineLoop(str, rule, 0, 0, cur, <<>>))
    ELSE LookForDelimiter(str, rule, cur, IndexIn(rule.start, str, 0))

(***************************************************************************)
(* The loop of highlightBlock over blockRules, from rule k on.  tried      *)
(* lists the highlightMultilineBlock calls made: the rule, the spans it    *)
(* set and the value it returned.  BlockRuleReturned is the body of the    *)
(* loop after the call for rule k returned r.                              *)
(***************************************************************************)
RECURSIVE BlockRulesLoop(_, _, _, _, _, _)

\* BlockRuleReturned as it would be if the loop stopped at the first rule
\* that matched on the line, whether its region ended closed or open.
BlockRuleReturnedOnMatch(str, prev, k, spans, tried, r) ==
    IF r.inside \/ r.spans # <<>>
    THEN [matched_multiline |-> TRUE, cur |-> r.cur, spans |-> spans \o r.spans,
          tried |-> Append(tried, [rule |-> k, spans |-> r.spans, inside |-> r.inside])]
    ELSE BlockRulesLoop(str, prev, k + 1, r.cur, spans \o r.spans,
                        Append(tried, [rule |-> k, spans |-> r.spans, inside |-> r.inside]))

BlockRuleReturned(str, prev, k, spans, tried, r) ==
    IF r.inside
    THEN [matched_multiline |-> TRUE, cur |-> r.cur, spans |-> spans \o r.spans,
          tried |-> Append(tried, [rule |-> k, spans |-> r.spans, inside |-> r.inside])]
    ELSE BlockRulesLoop(str, prev, k + 1, r.cur, spans \o r.spans,
                        Append(tried, [rule |-> k, spans |-> r.spans, inside |-> r.inside]))

BlockRulesLoop(str, prev, k, cur, spans, tried) ==
    IF k > Len(blockRules)
    THEN [matched_multiline |-> FALSE, cur |-> cur, spans |-> spans, tried |-> tried]
    ELSE BlockRuleReturned(str, prev, k, spans, tried,
                           highlightMultilineBlock(str, blockRules[k], prev, cur))

(***************************************************************************)
(* A single-line quoted string rule (the double quote one and its single   *)
(* quote twin) on a text without backslashes: a quote, any characters      *)
(* that are not this quote, a quote.  The match at or after offset as      *)
(* <<pos(0), len(cap(0))>>, <<-1, 0>> when there is none.                  *)
(***************************************************************************)
\* The offsets from offset on where a quote opens a string that is closed.
QuotedFrom(rule, str, offset) ==
    { i \in 0..(Len(str) - 1) :
        /\ i >= offset
        /\ str[i + 1] = rule.quote
        /\ \E j \in (i + 1)..(Len(str) - 1) : str[j + 1] = rule.quote }

\* The match that opens at offset i: up to the next quote.
QuotedAt(rule, str, i) ==
    <<i, Min({ n \in (i + 1)..(Len(str) - 1) : str[n + 1] = rule.quote }) - i + 1>>

FirstQuoted(rule, str, opens) ==
    IF opens = {} THEN <<-1, 0>> ELSE QuotedAt(rule, str, Min(opens))

(***************************************************************************)
(* The three numeric rules.  All begin and end with a word boundary and    *)
(* allow a sign first; then come digits (int), 0x and hex digits (hex), or *)
(* digits, an optional fraction and an optional exponent (float).  The     *)
(* optional l or L suffix is no character of the model.  Offsets are where *)
(* a part of the pattern can end; every quantifier is greedy, so the match *)
(* that starts at an offset ends at the largest offset the whole pattern   *)
(* can end at.                                                             *)
(***************************************************************************)
IsWordChar(str, i) == i >= 0 /\ i < Len(str) /\ str[i + 1] \in WordChars

\* The word boundary assertion at offset i.
WordBoundary(str, i) == IsWordChar(str, i - 1) # IsWordChar(str, i)

\* One or more characters of class from offset i on.
Run(class, str, i) ==
    { e \in (i + 1)..Len(str) : \A j \in i..(e - 1) : str[j + 1] \in class }

\* The optional sign at offset i.
AfterSign(str, i) ==
    {i} \cup (IF i < Len(str) /\ str[i + 1] \in Signs THEN {i + 1} ELSE {})

IntEnds(str, i) == UNION { Run(Digits, str, s) : s \in AfterSign(str, i) }

HexFrom(str, s) ==
    IF s + 2 <= Len(str) /\ str[s + 1] = "0" /\ str[s + 2] \in HexMarks
    THEN Run(HexDigits, str, s + 2) ELSE {}

HexEnds(str, i) == UNION { HexFrom(str, s) : s \in AfterSign(str, i) }

\* The optional fraction after the digits that end at offset d.
Fraction(str, d) ==
    {d} \cup (IF d < Len(str) /\ str[d + 1] = "." THEN Run(Digits, str, d + 1) ELSE {})

ExponentUnsigned(str, f) ==
    {f} \cup (IF f < Len(str) /\ str[f + 1] \in ExponentMarks
              THEN Run(Digits, str, f + 1) ELSE {})

\* The optional exponent at offset f.
Exponent(str, f) ==
    {f} \cup (IF f < Len(str) /\ str[f + 1] \in ExponentMarks
              THEN IntEnds(str, f + 1) ELSE {})

FloatEnds(str, i) ==
    UNION { Exponent(str, f) : f \in UNION { Fraction(str, d) : d \in IntEnds(str, i) } }

PatternEnds(rule, str, i) ==
    CASE rule.number = "int" -> IntEnds(str, i)
      [] rule.number = "hex" -> HexEnds(str, i)
      [] rule.number = "float" -> FloatEnds(str, i)

\* Where a match of the rule that starts at offset i can end.
NumberEnds(rule, str, i) ==
    IF WordBoundary(str, i)
    THEN { e \in PatternEnds(rule, str, i) : WordBoundary(str, e) }
    ELSE {}

NumbersFrom(rule, str, offset) ==
    { i \in 0..(Len(str) - 1) : i >= offset /\ NumberEnds(rule, str, i) # {} }

NumberAt(rule, str, i) == <<i, Max(NumberEnds(rule, str, i)) - i>>

FirstNumber(rule, str, starts) ==
    IF starts = {} THEN <<-1, 0>> ELSE NumberAt(rule, str, Min(starts))

\* pattern.indexIn(text, offset) of a LineRule, then pos(0) and len(cap(0)).
LineRuleMatch(rule, str, offset) ==
    IF "quote" \in DOMAIN rule
    THEN FirstQuoted(rule, str, QuotedFrom(rule, str, offset))
    ELSE FirstNumber(rule, str, NumbersFrom(rule, str, offset))

\* The inner while loop of highlightBlock for one LineRule: m is the match
\* the last indexIn found.
RECURSIVE LineRuleLoop(_, _, _, _)
LineRuleFormatInsideQuotes(rule, str, m, spans) ==
    IF m[1] < 0 THEN spans
    ELSE LineRuleLoop(rule, str, m[1] + m[2],
                      Append(spans, <<m[1] + 1, m[2] - 2, rule.style>>))

LineRuleFormat(rule, str, m, spans) ==
    IF m[1] < 0 THEN spans
    ELSE LineRuleLoop(rule, str, m[1] + m[2],
                      Append(spans, <<m[1], m[2], rule.style>>))

LineRuleLoop(rule, str, offset, spans) ==
    LineRuleFormat(rule, str, LineRuleMatch(rule, str, offset), spans)

\* The loop of highlightBlock over rules, from rule k on.
RECURSIVE LineRulesLoop(_, _, _)
LineRulesLoop(str, k, spans) ==
    IF k > Len(rules) THEN spans
    ELSE LineRulesLoop(str, k + 1, LineRuleLoop(rules[k], str, 0, spans))

(***************************************************************************)
(* highlightBlock(text) on a block whose previous block holds state prev   *)
(* and which itself holds state cur.  The result is the record of the      *)
(* call: the text and incoming state it ran on, the setFormat calls in     *)
(* order (spans; lineSpans are those of the LineRules), the state the      *)
(* block holds afterwards, the multi-line rules tried and whether the      *)
(* single-line rules were scanned.                                         *)
(***************************************************************************)
CallRecordLineRulesFirst(str, prev, state, multiSpans, lineSpans, tried, scanned) ==
    [text |-> str, prev |-> prev, state |-> state,
     spans |-> lineSpans \o multiSpans, lineSpans |-> lineSpans,
     tried |-> tried, scanned |-> scanned]

CallRecord(str, prev, state, multiSpans, lineSpans, tried, scanned) ==
    [text |-> str, prev |-> prev, state |-> state,
     spans |-> multiSpans \o lineSpans, lineSpans |-> lineSpans,
     tried |-> tried, scanned |-> scanned]

AfterBlockRulesKeepsState(str, prev, m) ==
    IF m.matched_multiline
    THEN CallRecord(str, prev, m.cur, m.spans, <<>>, m.tried, FALSE)
    ELSE CallRecord(str, prev, m.cur, m.spans, LineRulesLoop(str, 1, <<>>), m.tried, TRUE)

\* highlightBlock after the loop over blockRules left m.
AfterBlockRules(str, prev, m) ==
    IF m.matched_multiline
    THEN CallRecord(str, prev, m.cur, m.spans, <<>>, m.tried, FALSE)
    ELSE CallRecord(str, prev, 0, m.spans, LineRulesLoop(str, 1, <<>>), m.tried, TRUE)

highlightBlock(str, prev, cur) ==
    AfterBlockRules(str, prev, BlockRulesLoop(str, prev, 1, cur, <<>>, <<>>))

(***************************************************************************)
(* QSyntaxHighlighter.setFormat(start, count, format) on a line whose      *)
(* characters hold formats: the characters from start on, count of them    *)
(* at most and none beyond the end of the line, take the format.           *)
(* Formats(str, spans) is what the line shows after the setFormat calls     *)
(* spans, made in order on a line without formats.                         *)
(***************************************************************************)
setFormat(formats, span) ==
    [p \in DOMAIN formats |->
        IF span[1] >= 0 /\ p - 1 >= span[1] /\ p - 1 < span[1] + span[2]
        THEN span[3] ELSE formats[p]]

RECURSIVE FormatLoop(_, _, _)
FormatLoop(formats, spans, i) ==
    IF i > Len(spans) THEN formats
    ELSE FormatLoop(setFormat(formats, spans[i]), spans, i + 1)

Formats(str, spans) == FormatLoop([p \in 1..Len(str) |-> "none"], spans, 1)

(***************************************************************************)
(* buildRules(rule_list, append).  A rule of rule_list is a LineRule or a  *)
(* MultiLineRule; rules is what self.rules holds when the call starts and  *)
(* blockRules what self.blockRules holds.  The result is the two lists     *)
(* when the call returns.  The entry stored for a rule keeps the rule's    *)
(* fields (the patterns compiled, the state and the style as given).       *)
(***************************************************************************)
\* isinstance(rule, MultiLineRule)
IsMultiLineRule(rule) == "state" \in DOMAIN rule

IsLineRule(rule) == ~IsMultiLineRule(rule)

\* The for loop of buildRules from the i-th rule of rule_list on.
RECURSIVE BuildLoop(_, _, _, _)
BuildLoop(rule_list, i, rs, brs) ==
    IF i > Len(rule_list) THEN [rules |-> rs, blockRules |-> brs]
    ELSE IF IsMultiLineRule(rule_list[i])
         THEN BuildLoop(rule_list, i + 1, rs, Append(brs, rule_list[i]))
         ELSE BuildLoop(rule_list, i + 1, Append(rs, rule_list[i]), brs)

buildRulesAlwaysClears(rule_list, append, rs, brs) ==
    BuildLoop(rule_list, 1, <<>>, <<>>)

buildRules(rule_list, append, rs, brs) ==
    IF append
    THEN BuildLoop(rule_list, 1, rs, brs)
    ELSE BuildLoop(rule_list, 1, <<>>, <<>>)

\* A MultiLineRule that carries the state tag of the first built-in one
\* with the delimiter of the second.
ClashingRule ==
    [start |-> TripleSingle, end |-> TripleSingle,
     state |-> blockRules[1].state, style |-> "stringBlock"]

\* The rules a caller of buildRules passes, and the lists it passes them in.
RuleChoices ==
    { rules[Len(rules) - 1], rules[Len(rules)], blockRules[1], blockRules[2], ClashingRule }

RECURSIVE RuleLists(_)
RuleLists(n) ==
    IF n = 0 THEN { <<>> }
    ELSE RuleLists(n - 1) \cup
         { Append(l, r) : l \in { m \in RuleLists(n - 1) : Len(m) = n - 1 }, r \in RuleChoices }

\* The buildRules call that __init__ makes on the lists it has just emptied.
InitBuildCall ==
    [rule_list |-> rules \o blockRules, append |-> FALSE, rules |-> <<>>, blockRules |-> <<>>]

(***************************************************************************)
(* Two highlightBlock calls that share the rule set.                       *)
(***************************************************************************)
Threads == {1, 2}

\* The QRegExp objects of the rule set: the start and the end pattern of
\* every entry of blockRules and the pattern of every entry of rules.
RegExps ==
    ({"start", "end"} \X (1..Len(blockRules))) \cup ({"pattern"} \X (1..Len(rules)))

\* What a QRegExp holds before its first match and after a failed one:
\* pos(0) and matchedLength() are -1, cap(0) is empty.
NoMatch == [pos |-> -1, len |-> -1]

\* The frame of a call that has not started.
IdleFrame ==
    [pc |-> "idle", text |-> <<>>, prev |-> -1, cur |-> -1, k |-> 0,
     start_index |-> -1, add |-> 0, end_index |-> -1, length |-> 0,
     index |-> -1, spans |-> <<>>, matched |-> FALSE]

(***************************************************************************)
(* The document.                                                           *)
(***************************************************************************)
\* QSyntaxHighlighter.previousBlockState(): -1 for the first block.
previousBlockState(b) == IF b = 1 THEN -1 ELSE userState[b - 1]

\* QSyntaxHighlighter.currentBlockState().
currentBlockState(b) == userState[b]

\* The number of keystrokes that typed str: a triple quote is one keystroke.
KeyCount(str) ==
    LET quotes == Cardinality({ i \in 1..Len(str) : str[i] \in {DQ, SQ} })
    IN  (Len(str) - quotes) + (quotes \div Len(TripleDouble))

RECURSIVE SumKeys(_)
SumKeys(b) == IF b = 0 THEN 0 ELSE KeyCount(text[b]) + SumKeys(b - 1)
DocKeys == SumKeys(NumBlocks)

\* No highlightBlock call was made since the last edit (tried is empty).
NoCall == CallRecord(<<>>, -1, -1, <<>>, <<>>, <<>>, FALSE)

Init ==
    /\ text = [b \in Blocks |-> <<>>]
    /\ userState = [b \in Blocks |-> -1]
    /\ call = NoCall
    /\ selfRules = rules
    /\ selfBlockRules = blockRules
    /\ buildCall = InitBuildCall
    /\ thread = [t \in Threads |-> IdleFrame]
    /\ regexp = [p \in RegExps |-> NoMatch]

\* The user types at the end of block b.
InsertText(b, keys) ==
    /\ DocKeys < MaxDocKeys
    /\ text' = [text EXCEPT ![b] = text[b] \o keys]
    /\ call' = NoCall
    /\ UNCHANGED <<userState, buildVars, threadVars>>

\* The user deletes the text of block b.
RemoveText(b) ==
    /\ text[b] # <<>>
    /\ text' = [text EXCEPT ![b] = <<>>]
    /\ call' = NoCall
    /\ UNCHANGED <<userState, buildVars, threadVars>>

\* highlightBlock returned r on block b: the state it set stays on the block.
Highlighted(b, r) ==
    /\ userState' = [userState EXCEPT ![b] = r.state]
    /\ call' = r
    /\ UNCHANGED <<text, buildVars, threadVars>>

\* The host (re)highlights block b: one call of highlightBlock.
HighlightBlock(b) ==
    Highlighted(b, highlightBlock(text[b], previousBlockState(b), currentBlockState(b)))

(***************************************************************************)
(* QSyntaxHighlighter.rehighlight(): highlightBlock on every block in      *)
(* document order, each call reading the state the call before it stored   *)
(* on the previous block.  states are the stored states so far, last the   *)
(* latest call, scanned whether every call so far scanned the LineRules.   *)
(***************************************************************************)
RECURSIVE RehighlightFrom(_, _, _, _)
RehighlightStep(b, states, scanned, r) ==
    RehighlightFrom(b + 1, [states EXCEPT ![b] = r.state], r, scanned /\ r.scanned)

RehighlightFrom(b, states, last, scanned) ==
    IF b > NumBlocks
    THEN [states |-> states, last |-> last, scanned |-> scanned]
    ELSE RehighlightStep(b, states, scanned,
                         highlightBlock(text[b],
                                        IF b = 1 THEN -1 ELSE states[b - 1],
                                        states[b]))

Rehighlighted(r) ==
    /\ userState' = r.states
    /\ call' = r.last
    /\ UNCHANGED <<text, buildVars, threadVars>>

\* The host re-highlights the whole document.
Rehighlight == Rehighlighted(RehighlightFrom(1, userState, NoCall, TRUE))

Next ==
    \/ \E b \in Blocks, keys \in Keystrokes : InsertText(b, keys)
    \/ \E b \in Blocks : RemoveText(b)
    \/ \E b \in Blocks : HighlightBlock(b)
    \/ Rehighlight

Spec == Init /\ [][Next]_vars

(***************************************************************************)
(* The user writes numeric literals.                                       *)
(***************************************************************************)
\* The user types a literal on the empty block b.
InsertLiteral(b, literal) ==
    /\ text[b] = <<>>
    /\ text' = [text EXCEPT ![b] = literal]
    /\ call' = NoCall
    /\ UNCHANGED <<userState, buildVars, threadVars>>

\* The characters the user types after a literal: a letter, a digit.
SuffixChars == {"x", "2"}

\* The user types one more character after the literal of block b.
AppendChar(b, c) ==
    /\ text[b] \in Literals
    /\ text' = [text EXCEPT ![b] = Append(text[b], c)]
    /\ call' = NoCall
    /\ UNCHANGED <<userState, buildVars, threadVars>>

NextNumbers ==
    \/ \E b \in Blocks, literal \in Literals : InsertLiteral(b, literal)
    \/ \E b \in Blocks, c \in SuffixChars : AppendChar(b, c)
    \/ \E b \in Blocks : RemoveText(b)
    \/ \E b \in Blocks : HighlightBlock(b)

SpecNumbers == Init /\ [][NextNumbers]_vars

(***************************************************************************)
(* Two highlightBlock calls on different lines, run one statement at a     *)
(* time, both with the QRegExp objects of the one rule set.  indexIn       *)
(* leaves its result on the QRegExp object; matchedLength, pos and cap     *)
(* read what the latest indexIn on that object left.  Each call is on a    *)
(* line that was never highlighted (current state -1).                     *)
(***************************************************************************)
ThreadTexts == { <<"x">>, TripleDouble, <<DQ, DQ>> }
ThreadStates == {0, 1}

\* What indexIn leaves on the QRegExp of a delimiter pattern.
Searched(pat, index) == [pos |-> index, len |-> MatchedLength(pat, index)]

\* indexIn of a LineRule pattern: a negative offset counts from the end.
LineRuleIndexIn(rule, str, offset) ==
    IF offset + Len(str) < 0 THEN <<-1, 0>>
    ELSE LineRuleMatch(rule, str, IF offset < 0 THEN offset + Len(str) ELSE offset)

\* What that indexIn leaves on the QRegExp of the LineRule.
LineSearched(m) == [pos |-> m[1], len |-> IF m[1] < 0 THEN -1 ELSE m[2]]

\* len(pattern.cap(0)): the empty string after a failed match.
CapLength(re) == IF re.len < 0 THEN 0 ELSE re.len

\* Call t goes on with frame and leaves the QRegExp objects as re.
Step(t, frame, re) ==
    /\ thread' = [thread EXCEPT ![t] = frame]
    /\ regexp' = re
    /\ UNCHANGED <<docVars, buildVars>>

\* highlightBlock(text) is called on a line whose previous line holds prev.
StartCall(t, str, prev) ==
    /\ thread[t].pc = "idle"
    /\ Step(t, [IdleFrame EXCEPT !.pc = "rule", !.text = str, !.prev = prev, !.k = 1],
            regexp)

\* Lines 176-177: start.indexIn(text) returned found.
StartSearched(t, found) ==
    Step(t, [thread[t] EXCEPT !.pc = "add", !.start_index = found],
         [regexp EXCEPT ![<<"start", thread[t].k>>] =
             Searched(blockRules[thread[t].k].start, found)])

\* Lines 211-212 and 170-177: the next entry of blockRules, if any, and
\* the first statements of highlightMultilineBlock.
EnterRule(t) ==
    /\ thread[t].pc = "rule"
    /\ IF thread[t].k > Len(blockRules)
       THEN Step(t, [thread[t] EXCEPT !.pc = "scan", !.k = 1], regexp)
       ELSE IF thread[t].prev = blockRules[thread[t].k].state
            THEN Step(t, [thread[t] EXCEPT !.pc = "loop", !.start_index = 0, !.add = 0],
                      regexp)
            ELSE StartSearched(t, IndexIn(blockRules[thread[t].k].start, thread[t].text, 0))

\* Line 179: add = start.matchedLength()
ReadAdd(t) ==
    /\ thread[t].pc = "add"
    /\ Step(t, [thread[t] EXCEPT !.pc = "loop",
                                 !.add = regexp[<<"start", thread[t].k>>].len],
            regexp)

\* Line 185: end.indexIn(text, start_index + add) returned found.
EndSearched(t, found) ==
    Step(t, [thread[t] EXCEPT !.pc = "length", !.end_index = found],
         [regexp EXCEPT ![<<"end", thread[t].k>>] =
             Searched(blockRules[thread[t].k].end, found)])

\* Lines 182-185: the loop test and the search for the end pattern.
SearchEnd(t) ==
    /\ thread[t].pc = "loop"
    /\ IF thread[t].start_index < 0
       THEN Step(t, [thread[t] EXCEPT !.pc = "return"], regexp)
       ELSE EndSearched(t, IndexIn(blockRules[thread[t].k].end, thread[t].text,
                                   thread[t].start_index + thread[t].add))

\* Lines 190 or 194 and 198: the state and the span of length length.
RegionFormatted(t, state, length) ==
    Step(t, [thread[t] EXCEPT !.pc = "next", !.cur = state, !.length = length,
                              !.spans = Append(@, <<thread[t].start_index, length,
                                                   blockRules[thread[t].k].style>>)],
         regexp)

\* Lines 188-198: end.matchedLength() is read when the region ends here.
FormatRegion(t) ==
    /\ thread[t].pc = "length"
    /\ Len(thread[t].spans) < MaxThreadSpans
    /\ IF thread[t].end_index >= thread[t].add
       THEN RegionFormatted(t, 0,
                thread[t].end_index - thread[t].start_index + thread[t].add
                    + regexp[<<"end", thread[t].k>>].len)
       ELSE RegionFormatted(t, blockRules[thread[t].k].state,
                Len(thread[t].text) - thread[t].start_index + thread[t].add)

\* Line 201: start.indexIn(text, start_index + length) returned found.
NextSearched(t, found) ==
    Step(t, [thread[t] EXCEPT !.pc = "loop", !.start_index = found],
         [regexp EXCEPT ![<<"start", thread[t].k>>] =
             Searched(blockRules[thread[t].k].start, found)])

SearchNext(t) ==
    /\ thread[t].pc = "next"
    /\ NextSearched(t, IndexIn(blockRules[thread[t].k].start, thread[t].text,
                               thread[t].start_index + thread[t].length))

\* Lines 204 and 212-217: the value returned and what highlightBlock does
\* with it.
ReturnRule(t) ==
    /\ thread[t].pc = "return"
    /\ IF thread[t].cur = blockRules[thread[t].k].state
       THEN Step(t, [thread[t] EXCEPT !.pc = "done", !.matched = TRUE], regexp)
       ELSE Step(t, [thread[t] EXCEPT !.pc = "rule", !.k = @ + 1], regexp)

\* Lines 222 and 228: pattern.indexIn returned the match m.
PatternSearched(t, m) ==
    Step(t, [thread[t] EXCEPT !.pc = "while", !.index = m[1]],
         [regexp EXCEPT ![<<"pattern", thread[t].k>>] = LineSearched(m)])

\* Lines 220-222 and 230: the next entry of rules, if any.
ScanRule(t) ==
    /\ thread[t].pc = "scan"
    /\ IF thread[t].k > Len(rules)
       THEN Step(t, [thread[t] EXCEPT !.pc = "done", !.cur = 0], regexp)
       ELSE PatternSearched(t, LineRuleIndexIn(rules[thread[t].k], thread[t].text, 0))

\* Lines 223-225: the loop test and index = pattern.pos(nth)
ReadPos(t) ==
    /\ thread[t].pc = "while"
    /\ IF thread[t].index < 0
       THEN Step(t, [thread[t] EXCEPT !.pc = "scan", !.k = @ + 1], regexp)
       ELSE Step(t, [thread[t] EXCEPT !.pc = "cap",
                                     !.index = regexp[<<"pattern", thread[t].k>>].pos],
                 regexp)

\* Lines 226-227: length = len(pattern.cap(nth)) and setFormat.
MatchFormatted(t, length) ==
    Step(t, [thread[t] EXCEPT !.pc = "again", !.length = length,
                              !.spans = Append(@, <<thread[t].index, length,
                                                   rules[thread[t].k].style>>)],
         regexp)

FormatMatch(t) ==
    /\ thread[t].pc = "cap"
    /\ Len(thread[t].spans) < MaxThreadSpans
    /\ MatchFormatted(t, CapLength(regexp[<<"pattern", thread[t].k>>]))

\* Line 228: index = pattern.indexIn(text, index + length)
SearchAgain(t) ==
    /\ thread[t].pc = "again"
    /\ PatternSearched(t, LineRuleIndexIn(rules[thread[t].k], thread[t].text,
                                          thread[t].index + thread[t].length))

\* highlightBlock has returned; the next call of this caller is on another
\* line.
ReturnCall(t) ==
    /\ thread[t].pc = "done"
    /\ Step(t, IdleFrame, regexp)

NextThreads ==
    \/ \E t \in Threads, str \in ThreadTexts, prev \in ThreadStates : StartCall(t, str, prev)
    \/ \E t \in Threads : EnterRule(t)
    \/ \E t \in Threads : ReadAdd(t)
    \/ \E t \in Threads : SearchEnd(t)
    \/ \E t \in Threads : FormatRegion(t)
    \/ \E t \in Threads : SearchNext(t)
    \/ \E t \in Threads : ReturnRule(t)
    \/ \E t \in Threads : ScanRule(t)
    \/ \E t \in Threads : ReadPos(t)
    \/ \E t \in Threads : FormatMatch(t)
    \/ \E t \in Threads : SearchAgain(t)
    \/ \E t \in Threads : ReturnCall(t)

SpecThreads == Init /\ [][NextThreads]_vars

(***************************************************************************)
(* A caller rebuilds the rule set of the highlighter.                      *)
(***************************************************************************)
\* buildRules returned the lists r.
Built(rule_list, append, r) ==
    /\ selfRules' = r.rules
    /\ selfBlockRules' = r.blockRules
    /\ buildCall' = [rule_list |-> rule_list, append |-> append,
                     rules |-> selfRules, blockRules |-> selfBlockRules]
    /\ UNCHANGED <<docVars, threadVars>>

BuildRules(rule_list, append) ==
    /\ append => Len(selfRules) + Len(selfBlockRules) + Len(rule_list) <= MaxRules
    /\ Built(rule_list, append, buildRules(rule_list, append, selfRules, selfBlockRules))

NextBuild ==
    \E rule_list \in RuleLists(MaxRuleList), append \in BOOLEAN : BuildRules(rule_list, append)

SpecBuild == Init /\ [][NextBuild]_vars

(***************************************************************************)
(* Vocabulary of the properties below.                                     *)
(***************************************************************************)
Called == call.tried # <<>>

RuleIds == 1..Len(blockRules)

Occurs(pat, str) == IndexIn(pat, str, 0) >= 0

\* The text holds the start pattern of rule k and of no other MultiLineRule.
OnlyRule(k, str) ==
    /\ Occurs(blockRules[k].start, str)
    /\ \A j \in RuleIds \ {k} : ~Occurs(blockRules[j].start, str)

\* (C1) The result of highlightBlock, spans and exit state, depends only on
\* the incoming state and the text: whatever state the block already holds
\* from an earlier highlight, the call gives what it gives on a block with
\* equal text and equal incoming state that was never highlighted (-1).
C1_ResultIgnoresStoredState ==
    Called =>
        LET r == highlightBlock(call.text, call.prev, -1)
        IN  r.state = call.state /\ r.spans = call.spans

\* (C2) When no MultiLineRule applies (the incoming state is no rule's state
\* and no rule's start pattern occurs in the text) the exit state is 0 and
\* every LineRule was scanned over the entire line.
C2_NoRuleExitsZeroAndScans ==
    (Called /\ \A k \in RuleIds :
                  /\ call.prev # blockRules[k].state
                  /\ ~Occurs(blockRules[k].start, call.text))
        => /\ call.state = 0
           /\ call.scanned
           /\ call.lineSpans = LineRulesLoop(call.text, 1, <<>>)

\* Rule k matched on the line of the call: it resumed or its start occurs.
RuleMatched(k) ==
    \/ call.prev = blockRules[k].state
    \/ Occurs(blockRules[k].start, call.text)

\* The first rule opens and closes one region, after which the start of the
\* second rule occurs once, unterminated; no other delimiter is in the text.
ClosedThenOpen(str) ==
    LET A  == blockRules[1]
        B  == blockRules[2]
        s1 == IndexIn(A.start, str, 0)
        e1 == IndexIn(A.end, str, s1 + Len(A.start))
        q  == IndexIn(B.start, str, 0)
    IN  /\ s1 >= 0
        /\ e1 >= 0
        /\ IndexIn(A.start, str, e1 + Len(A.end)) = -1
        /\ q >= e1 + Len(A.end)
        /\ IndexIn(B.end, str, q + Len(B.start)) = -1

C4_ResumptionTakesPrecedence ==
    Called =>
        \A k \in RuleIds :
            (call.prev = blockRules[k].state /\ ~Occurs(blockRules[k].end, call.text))
                => /\ call.state = blockRules[k].state
                   /\ \E i \in 1..Len(call.spans) :
                         call.spans[i] = <<0, Len(call.text), blockRules[k].style>>

\* (C5) On a resumed line, after the resumed region closes, a further start
\* pattern of the rule with no end pattern after it leaves the region open:
\* the exit state is the rule's state.
C5_ReopenedRegionStaysOpen ==
    Called =>
        \A k \in RuleIds :
            LET R  == blockRules[k]
                e  == IndexIn(R.end, call.text, 0)
                s2 == IndexIn(R.start, call.text, e + Len(R.end))
            IN  (/\ call.prev = R.state
                 /\ e >= 0
                 /\ s2 >= 0
                 /\ IndexIn(R.end, call.text, s2 + Len(R.start)) = -1)
                    => call.state = R.state

\* The exit state that pairing rule R's delimiters left to right from
\* offset pos gives: each search for a start begins at the end of the
\* closing delimiter before it.
RECURSIVE PairedState(_, _, _)
PairedState(R, str, pos) ==
    LET s == IndexIn(R.start, str, pos)
        e == IndexIn(R.end, str, s + Len(R.start))
    IN  IF s < 0 THEN 0
        ELSE IF e < 0 THEN R.state
        ELSE PairedState(R, str, e + Len(R.end))

\* (C6) With incoming state 0, on a line whose only delimiters are those of
\* one rule R, the exit state is the one that pairing the delimiters left to
\* right gives.
C6_ExitStatePairsDelimiters ==
    Called =>
        \A k \in RuleIds :
            (call.prev = 0 /\ OnlyRule(k, call.text))
                => call.state = PairedState(blockRules[k], call.text, 0)

\* (C7) The span of a region freshly opened and closed on the line runs from
\* the start match to the end of the end match: its length is
\* end_offset + end_length - start_offset.
C7_ClosedSpanEndsAtDelimiter ==
    Called =>
        \A i \in 1..Len(call.tried) :
            LET R == blockRules[call.tried[i].rule]
                s == IndexIn(R.start, call.text, 0)
                e == IndexIn(R.end, call.text, s + Len(R.start))
            IN  (call.prev # R.state /\ s >= 0 /\ e >= 0)
                    => /\ call.tried[i].spans # <<>>
                       /\ call.tried[i].spans[1] = <<s, e + Len(R.end) - s, R.style>>

\* (C8) Every span passed to setFormat lies within the line.
C8_SpansWithinLine ==
    Called =>
        \A i \in 1..Len(call.spans) :
            /\ 0 <= call.spans[i][1]
            /\ 0 <= call.spans[i][2]
            /\ call.spans[i][1] + call.spans[i][2] <= Len(call.text)

\* The text holds one start pattern of rule k, no end pattern after it and
\* no start pattern of another rule.
OneOpener(k, str) ==
    LET R == blockRules[k]
        s == IndexIn(R.start, str, 0)
    IN  /\ OnlyRule(k, str)
        /\ IndexIn(R.start, str, s + Len(R.start)) = -1
        /\ IndexIn(R.end, str, s + Len(R.start)) = -1

\* (C9) A line that ends inside an open region is not scanned by the
\* LineRules: a non-zero exit state means no LineRule span, a scan means
\* exit state 0, and a line with incoming state 0 holding one unterminated
\* opener exits with that rule's state.
C9_OpenLineIsNotScanned ==
    Called =>
        /\ call.state # 0 => (~call.scanned /\ call.lineSpans = <<>>)
        /\ call.scanned => call.state = 0
        /\ \A k \in RuleIds :
              (call.prev = 0 /\ OneOpener(k, call.text))
                  => call.state = blockRules[k].state

\* (C10) Resumption and closure: with an incoming state equal to rule R's
\* state and a text holding R's end pattern with no delimiter after it, the
\* rule sets one span from offset 0 to the end of the closing delimiter,
\* the exit state is 0 and the LineRules are scanned.
C10_ResumedRegionCloses ==
    Called =>
        \A k \in RuleIds :
            LET R == blockRules[k]
                e == IndexIn(R.end, call.text, 0)
            IN  (/\ call.prev = R.state
                 /\ e >= 0
                 /\ \A j \in RuleIds :
                       IndexIn(blockRules[j].start, call.text, e + Len(R.end)) = -1)
                    => /\ \E i \in 1..Len(call.tried) :
                             /\ call.tried[i].rule = k
                             /\ call.tried[i].spans = << <<0, e + Len(R.end), R.style>> >>
                       /\ call.state = 0
                       /\ call.scanned

(***************************************************************************)
(* Properties of the order of the setFormat calls.                         *)
(***************************************************************************)
\* The spans of the sequence spans that cover offset p of a line.
Covering(spans, p) ==
    { i \in 1..Len(spans) : spans[i][1] <= p /\ p < spans[i][1] + spans[i][2] }

RECURSIVE TriedSpans(_, _)
TriedSpans(tried, i) ==
    IF i > Len(tried) THEN <<>> ELSE tried[i].spans \o TriedSpans(tried, i + 1)

RECURSIVE PerRuleSpans(_, _)
PerRuleSpans(str, k) ==
    IF k > Len(rules) THEN <<>>
    ELSE LineRuleLoop(rules[k], str, 0, <<>>) \o PerRuleSpans(str, k + 1)

\* Left to right: every span of the sequence starts where the one before
\* it ended or later.
LeftToRight(spans) ==
    \A i \in 1..(Len(spans) - 1) : spans[i + 1][1] >= spans[i][1] + spans[i][2]

\* C12: last rule wins.  In one call the spans are applied in this order:
\* the spans of the multi-line rules in blockRules order, then the spans of
\* each LineRule in rules order, each rule's matches left to right.  Every
\* character ends with the style of the last span that covers it, and a
\* character covered by a LineRule span shows a LineRule style even when a
\* multi-line span of a region closed on the same line covers it too.
C12_LastRuleWins ==
    Called =>
        /\ call.spans = TriedSpans(call.tried, 1) \o call.lineSpans
        /\ \A i \in 1..Len(call.tried) :
              /\ LeftToRight(call.tried[i].spans)
              /\ i > 1 => call.tried[i].rule > call.tried[i - 1].rule
        /\ call.lineSpans = (IF call.scanned THEN PerRuleSpans(call.text, 1) ELSE <<>>)
        /\ \A k \in 1..Len(rules) : LeftToRight(LineRuleLoop(rules[k], call.text, 0, <<>>))
        /\ \A p \in 0..(Len(call.text) - 1) :
              /\ Formats(call.text, call.spans)[p + 1] =
                     IF Covering(call.spans, p) = {} THEN "none"
                     ELSE call.spans[Max(Covering(call.spans, p))][3]
              /\ Covering(call.lineSpans, p) # {} =>
                     Formats(call.text, call.spans)[p + 1] =
                        call.lineSpans[Max(Covering(call.lineSpans, p))][3]

\* A LineRule span lies over the span of a multi-line region that was
\* closed on the same line.
C12_Witness ==
    /\ Called
    /\ call.scanned
    /\ \E p \in 0..(Len(call.text) - 1) :
          /\ Covering(call.lineSpans, p) # {}
          /\ Covering(TriedSpans(call.tried, 1), p) # {}
          /\ Formats(call.text, call.spans)[p + 1] = "string"

(***************************************************************************)
(* Properties of repeated calls and of the stored states.                  *)
(***************************************************************************)
\* What two highlightBlock calls show alike: the spans and the exit state.
SameResult(r1, r2) == r1.spans = r2.spans /\ r1.state = r2.state

\* C13: re-highlighting is idempotent.  A block that was just highlighted
\* and is highlighted again, with its text and its incoming state
\* unchanged, gets the same spans and the same stored exit state, and so
\* does every further repetition.
C13_RehighlightIdempotent ==
    Called =>
        /\ SameResult(highlightBlock(call.text, call.prev, call.state), call)
        /\ SameResult(highlightBlock(call.text, call.prev,
                          highlightBlock(call.text, call.prev, call.state).state), call)

\* The call left a block inside a multi-line string and painted it, and a
\* second call on that block, which now starts from the state the first one
\* stored, leaves it there.
C13_Witness ==
    /\ Called
    /\ call.state = 1
    /\ call.spans # <<>>
    /\ \E b \in Blocks :
          /\ text[b] = call.text
          /\ previousBlockState(b) = call.prev
          /\ userState[b] = call.state
          /\ highlightBlock(text[b], previousBlockState(b), userState[b]).state = 1

\* The values setCurrentBlockState is meant to store.
ExitStates == {0} \cup { blockRules[k].state : k \in RuleIds }

\* C17: the state stored on a block is 0 or the state of a MultiLineRule,
\* or -1 on a block that was never highlighted: highlightBlock stores no
\* other value, and no block goes back to -1.
C17_StoredStates ==
    [][ /\ Called' => call'.state \in ExitStates
        /\ \A b \in Blocks :
              /\ userState'[b] \in {-1} \cup ExitStates
              /\ userState'[b] # userState[b] => userState'[b] \in ExitStates
              /\ userState[b] # -1 => userState'[b] # -1 ]_vars

\* One block holds the state of the second rule, stored by the last call,
\* while another was never highlighted.
C17_Witness ==
    /\ Called
    /\ call.state = 2
    /\ \E b, c \in Blocks : userState[b] = 2 /\ userState[c] = -1

\* No line of the document holds the start pattern of a MultiLineRule.
NoStartPattern ==
    \A b \in Blocks, k \in RuleIds : ~Occurs(blockRules[k].start, text[b])

\* C16: when no line of the document holds the start pattern of any
\* MultiLineRule, re-highlighting the lines in document order (the first
\* line has no line before it) leaves the stored exit state 0 on every line
\* and scans every line with the LineRules, whatever edits and highlights
\* came before.
C16_RehighlightResetsStates ==
    [][ ( /\ NoStartPattern
          /\ text' = text
          /\ userState' = RehighlightFrom(1, userState, NoCall, TRUE).states
          /\ call' = RehighlightFrom(1, userState, NoCall, TRUE).last )
        =>
        ( /\ \A b \in Blocks : userState'[b] = 0
          /\ RehighlightFrom(1, userState, NoCall, TRUE).scanned ) ]_vars

(***************************************************************************)
(* Progress of the loops of highlightBlock.                                *)
(***************************************************************************)
\* The spans one loop emitted on the line str show that every turn moved
\* the search offset forward: every span is at least one character long
\* unless the line is empty, every span starts at or after the end of the
\* span before it, and the loop made at most one turn per character.
MovesForward(str, spans) ==
    /\ \A j \in 1..Len(spans) : spans[j][2] >= 1 \/ str = <<>>
    /\ \A j \in 1..(Len(spans) - 1) :
          /\ spans[j + 1][1] > spans[j][1]
          /\ spans[j + 1][1] >= spans[j][1] + spans[j][2]
    /\ Len(spans) <= Len(str) + 1

\* C19: highlightBlock terminates.  Every turn of the start/end loop of a
\* multi-line rule and of the match loop of a LineRule moves the next
\* search offset strictly forward: every emitted span is at least one
\* character long, except on an empty line, so no loop searches twice from
\* the same offset.
C19_LoopsMoveForward ==
    Called =>
        /\ \A i \in 1..Len(call.tried) : MovesForward(call.text, call.tried[i].spans)
        /\ call.lineSpans = (IF call.scanned THEN PerRuleSpans(call.text, 1) ELSE <<>>)
        /\ \A k \in 1..Len(rules) :
              MovesForward(call.text, LineRuleLoop(rules[k], call.text, 0, <<>>))

\* In one call the start/end loop of a multi-line rule made two turns and
\* the match loop of a LineRule made two turns.
C19_Witness ==
    /\ Called
    /\ call.scanned
    /\ \E i \in 1..Len(call.tried) : Len(call.tried[i].spans) >= 2
    /\ \E k \in 1..Len(rules) : Len(LineRuleLoop(rules[k], call.text, 0, <<>>)) >= 2

(***************************************************************************)
(* Properties of the numeric rules.                                        *)
(***************************************************************************)
IsNumbersSpan(span) == span[3] = "numbers"

\* The call ran on a line that is one of the three literals, with incoming
\* state 0.
LiteralCall == Called /\ call.text \in Literals /\ call.prev = 0

WholeLine(str) == <<0, Len(str), "numbers">>

C14_InterleavingKeepsResult ==
    \A t \in Threads :
        thread[t].pc = "done" =>
            /\ thread[t].spans = highlightBlock(thread[t].text, thread[t].prev, -1).spans
            /\ thread[t].cur = highlightBlock(thread[t].text, thread[t].prev, -1).state

(***************************************************************************)
(* Properties of buildRules.                                               *)
(***************************************************************************)
\* C11: no highlighter holds two MultiLineRule entries that share a state
\* tag: a buildRules call that would leave two such entries in blockRules
\* fails instead.
C11_NoSharedStateTag ==
    \A i, j \in 1..Len(selfBlockRules) :
        selfBlockRules[i].state = selfBlockRules[j].state => i = j

\* C18: buildRules keeps the order of its rule_list.  After a call with
\* append False, rules holds exactly the LineRules of rule_list in their
\* order and blockRules exactly its MultiLineRules in their order; after a
\* call with append True each list holds what it held before the call as a
\* prefix, in the same order, followed by the new rules in their order.
C18_BuildRulesKeepsOrder ==
    /\ selfRules =
           (IF buildCall.append THEN buildCall.rules ELSE <<>>)
               \o SelectSeq(buildCall.rule_list, IsLineRule)
    /\ selfBlockRules =
           (IF buildCall.append THEN buildCall.blockRules ELSE <<>>)
               \o SelectSeq(buildCall.rule_list, IsMultiLineRule)

\* An appending call found both lists filled and added two different rules
\* to one of them.
C18_Witness ==
    /\ buildCall.append
    /\ buildCall.rules # <<>>
    /\ buildCall.blockRules # <<>>
    /\ Len(buildCall.rule_list) = 2
    /\ buildCall.rule_list[1] # buildCall.rule_list[2]
    /\ IsMultiLineRule(buildCall.rule_list[1]) = IsMultiLineRule(buildCall.rule_list[2])
    /\ selfRules # buildCall.rules \/ selfBlockRules # buildCall.blockRules

====
